---- MODULE Spec2Model ----
(***************************************************************************)
(* Model of the WithSecure API clients: AsyncWithSecureClient              *)
(* (async_withsecure_client.py) and WithSecureClient                       *)
(* (withsecure_client.py).  The state is one client object (its token,     *)
(* its expiry, for the async class its asyncio.Lock), the wall clock, and  *)
(* a set of concurrent callers (coroutines of the event loop for the async *)
(* class, threads for the synchronous class), each running one operation   *)
(* of the client against an upstream server whose answers are              *)
(* nondeterministic (Spec).  SpecWindow follows one get_devices() call     *)
(* with the time that passes between its token check and its request.      *)
(* SpecService applies the handlers of the local service (main.py) and the *)
(* functions of the reporting script (monitor_updates.py) to the upstream  *)
(* answers and drained collections they receive.                           *)
(***************************************************************************)
EXTENDS Integers, Sequences, FiniteSets, TLC

\* ------------------------------------------------------------------ bounds
NProcs == 2          \* concurrent callers of the client
MaxNow == 1          \* the clock runs over 0..MaxNow seconds
MaxPages == 3        \* page requests one drain sends in the model
MaxAuth == 2         \* token exchanges counted and told apart (then it saturates)
MaxIdLen == 3        \* longest device id of a single-device lookup
MaxDevices == 3      \* longest drained device collection
MaxUpdates == 2      \* longest drained update collection
MaxClock == 180      \* the clock of the timed call runs over 0..MaxClock seconds

\* ------------------------------------------------------- program constants
\* Mutant: half the margin.
MarginShort == 60 \div 2
Margin == 60                 \* timedelta(seconds=60) in is_token_valid
DefaultExpiresIn == 3600     \* token_data.get("expires_in", 3600)

Procs == 1..NProcs

\* Python's None / an absent dict key is the empty tuple, a present value v
\* is <<v>>.
None == <<>>
Some(v) == <<v>>

\* expires_in values the token endpoint may answer with (seconds)
ExpiresInValues == {Margin, Margin + 1}

\* Answers of POST /as/token.oauth2.  kind: "ok" is a 2xx answer,
\* "http_error" a non-2xx one (raise_for_status raises), "transport_error" a
\* failure before any status.  A 2xx body may lack access_token, may lack
\* expires_in, or may carry an expires_in that is not a number.
AuthResponses ==
    [kind : {"http_error", "transport_error"}, has_token : {FALSE},
     exp_kind : {"absent"}, expires_in : {0}]
    \cup [kind : {"ok"}, has_token : BOOLEAN,
          exp_kind : {"absent", "bad"}, expires_in : {0}]
    \cup [kind : {"ok"}, has_token : {TRUE},
          exp_kind : {"int"}, expires_in : ExpiresInValues]

\* Cursors the server may hand out; "" is an empty-string nextAnchor.
Cursors == {"c1", "c2"}
NextAnchors == {None, Some("")} \cup {Some(c) : c \in Cursors}

\* The items field of a page: absent, or a list of records.
PageItems == {None, Some(<<>>), Some(<<"a", "b">>), Some(<<"c">>), Some(<<"d">>)}

\* Answers of a data GET: a 2xx page, or a failure with its status
\* (0: transport failure, no status).
GetResponses ==
    [status : {200}, items : PageItems, nextAnchor : NextAnchors]
    \cup [status : {0, 404, 500}, items : {None}, nextAnchor : {None}]

Ops == {"ensure", "page", "drain"}

VARIABLES
    impl,          \* "async": AsyncWithSecureClient, "sync": WithSecureClient
    config,        \* self.client_id, client_secret, api_base_url, scopes
    phase,         \* "startup" | "startup_auth" | "serving"
    now,           \* datetime.now(), in seconds
    access_token,  \* self.access_token: None or <<token>>
    token_expiry,  \* self.token_expiry: None or <<seconds>>
    lock_holder,   \* self._lock: the caller holding it, 0 when free
    lock_waiters,  \* self._lock._waiters, FIFO
    pc,            \* each caller's position
    op,            \* the operation each caller runs
    anchor,        \* local `anchor` of get_all_* / parameter of get_*
    all_items,     \* local all_devices / all_updates of a drain
    req,           \* the data GET in flight: its anchor parameter and bearer
    pending_tok,   \* sync only: token_data["access_token"] .. expiry store
    result,        \* what the operation returned
    err,           \* what the operation raised ("" when nothing)
    exch,          \* number of the token exchange a caller has in flight
    \* history variables (not program state)
    drained_before,\* a drain of caller 1 returned and caller 1 drains again
    auth_count,    \* token exchanges started so far
    calls,         \* page requests each caller has sent
    served,        \* concatenated items of the pages served to each caller
    served_n,      \* number of pages served (2xx) to each caller
    last_page,     \* the last page served (2xx) to each caller, None before
    last_auth,     \* the answer, number and time of the last authenticate()
                   \* that returned; None once a later one raised
    last_ok,       \* token and expiry stored by the most recent authenticate()
                   \* that returned, None before the first
    last_answer,   \* the last answer of the token endpoint that was
                   \* processed: "none" | "error" (non-2xx, transport) | "ok"
    \* the local service (main.py) and the reporting script
    handler,       \* the handler or function that ran, "none" before
    device_id,     \* path parameter device_id of a single-device lookup
    upstream,      \* status of the upstream answer to the lookup (0: none)
    devices,       \* the drained device collection
    updates,       \* the drained update collection
    response,      \* what the handler answered: None or <<record>>
    \* history of one timed call (not program state)
    window         \* kind: how ensure_authenticated() went in this call
                   \* ("none" | "valid" | "refreshed"), from: when the check
                   \* returned true / the refresh returned, sent: when the data
                   \* request was sent (-1 before)

coreVars == <<impl, config, drained_before, phase, now, access_token, token_expiry, lock_holder,
              lock_waiters, pc, op, anchor, all_items, req, pending_tok,
              result, err, exch, auth_count, last_auth, last_ok,
              last_answer, calls, served,
              served_n, last_page>>

svcVars == <<handler, device_id, upstream, devices, updates, response>>

vars == <<coreVars, svcVars, window>>

clientVars == <<access_token, token_expiry>>
lockVars == <<lock_holder, lock_waiters>>
histAuth == <<auth_count, last_auth, last_ok, last_answer>>
histPages == <<calls, served, served_n, last_page>>

\* ------------------------------------------------------------ pure helpers

\* The fields __init__ stores from its arguments (the defaults for the two
\* optional ones).
ConstructedConfig ==
    [client_id |-> "client_id",
     client_secret |-> "client_secret",
     api_base_url |-> "https://api.connect.withsecure.com",
     scopes |-> "connect.api.read connect.api.write"]

\* History counters stop at MaxAuth.
Counted(n) == IF n > MaxAuth THEN MaxAuth ELSE n

\* Python truthiness of an optional string: None and "" are falsy.
Truthy(x) == x # None /\ x # Some("")

\* Mutant: the margin is compared with <=.
IsTokenValidAtInclusive(tok, exp, t) ==
    IF tok = None \/ exp = None
    THEN FALSE
    ELSE t <= exp[1] - Margin

\* is_token_valid() on given field values at a given clock reading.
IsTokenValidAt(tok, exp, t) ==
    IF tok = None \/ exp = None
    THEN FALSE
    ELSE t < exp[1] - Margin

\* Mutant: any stored token counts as valid.
IsTokenValidAnyToken == access_token # None

IsTokenValid == IsTokenValidAt(access_token, token_expiry, now)

\* Mutant: no default when the answer has no expires_in.
ExpiresInNoDefault(r) == r.expires_in

\* token_data.get("expires_in", 3600)
ExpiresIn(r) == IF r.exp_kind = "absent" THEN DefaultExpiresIn ELSE r.expires_in

\* authenticate() raises: raise_for_status, KeyError on access_token, or
\* TypeError in timedelta(seconds=expires_in).
AuthRaises(r) == ~(r.kind = "ok" /\ r.has_token /\ r.exp_kind # "bad")

\* Mutant: a failed exchange clears the stored token.
TokenAfterClearedOnFailure(r, k) ==
    IF r.kind = "ok" /\ r.has_token THEN Some(k) ELSE None

\* Mutant: authenticate() does not store the token of the answer.
TokenAfterNotStored(r, k) == access_token

\* self.access_token after authenticate() processed answer r of exchange k
\* (the token endpoint's k-th answer carries token k).
TokenAfter(r, k) ==
    IF r.kind = "ok" /\ r.has_token THEN Some(k) ELSE access_token

\* Mutant: the expiry is not counted from the clock reading.
ExpiryAfterNoNow(r) ==
    IF AuthRaises(r) THEN token_expiry ELSE Some(ExpiresIn(r))

\* self.token_expiry after authenticate() processed answer r.
ExpiryAfter(r) ==
    IF AuthRaises(r) THEN token_expiry ELSE Some(now + ExpiresIn(r))

\* response.get("items", [])
ItemsOf(r) == IF r.items = None THEN <<>> ELSE r.items[1]

\* Mutant: items already collected are dropped from a page.
ExtendedDeduplicated(all, r) ==
    all \o SelectSeq(ItemsOf(r), LAMBDA x : \A i \in DOMAIN all : all[i] # x)

\* all_devices.extend(items)
Extended(all, r) == all \o ItemsOf(r)

\* Mutant: the drain stops after two pages.
DrainContinuesCapped(p, r) == Truthy(r.nextAnchor) /\ calls[p] < 2

\* Mutant: an empty collection is returned as None.
DrainResultNoneIfEmpty(all) == IF all = <<>> THEN None ELSE Some(all)

\* get_all_*: `return all_devices`
DrainResult(all) == Some(all)

\* get_all_*: `if not next_anchor: break` decides whether caller p's drain
\* asks for another page after page r.
DrainContinues(p, r) == Truthy(r.nextAnchor)

\* params of get_devices / get_software_updates: anchor only when truthy.
AnchorParam(a) == IF Truthy(a) THEN a ELSE None

\* Mutant: a failed operation starts over.
AfterRaiseRetries == "enter"

\* Where an exception leaves the caller: no `try`, no loop around
\* authenticate() or the data GET, the exception leaves the operation.
AfterRaise == "failed"

\* What the caller of ensure_authenticated() sees raised by authenticate():
\* the exception is not caught or wrapped on the way.
AuthError(r) == "auth"

\* History: authenticate() processed answer r of exchange k.
Returned(r, k) ==
    IF r.kind = "ok" /\ r.has_token /\ r.exp_kind # "bad"
    THEN Some([exp_kind |-> r.exp_kind, expires_in |-> r.expires_in,
               k |-> k, at |-> now])
    ELSE None

\* History: what the most recent authenticate() that returned has stored.
StoredBy(r, k) ==
    IF AuthRaises(r)
    THEN last_ok
    ELSE Some([token |-> k, expiry |-> now + ExpiresIn(r)])

\* History: the kind of answer r.
AnswerKind(r) == IF r.kind = "ok" THEN "ok" ELSE "error"

\* The Authorization header _get_headers builds from self.access_token.
\* Mutant: the header carries the client credentials scheme.
AuthorizationHeaderBasic(tok) == <<"Basic", tok>>

\* f"Bearer {self.access_token}"
AuthorizationHeader(tok) == <<"Bearer", tok>>

\* ------------------------------------------------------------------- state

\* An answer no caller has received yet (placeholder of pending_tok).
NoAnswer == [kind |-> "ok", has_token |-> FALSE, exp_kind |-> "absent",
             expires_in |-> 0]
NoRequest == [anchor |-> None, bearer |-> <<>>]
NoWindow == [kind |-> "none", from |-> 0, sent |-> -1]

Init ==
    /\ impl \in {"async", "sync"}
    /\ config = ConstructedConfig
    /\ drained_before = FALSE
    /\ phase \in {"startup", "serving"}
    /\ now = 0
    /\ access_token = None
    /\ token_expiry = None
    /\ lock_holder = 0
    /\ lock_waiters = <<>>
    /\ pc = [p \in Procs |-> "idle"]
    /\ op = [p \in Procs |-> "none"]
    /\ anchor = [p \in Procs |-> None]
    /\ all_items = [p \in Procs |-> <<>>]
    /\ req = [p \in Procs |-> NoRequest]
    /\ pending_tok = [p \in Procs |-> NoAnswer]
    /\ result = [p \in Procs |-> None]
    /\ err = [p \in Procs |-> ""]
    /\ exch = [p \in Procs |-> 0]
    /\ auth_count = 0
    /\ last_auth = None
    /\ last_ok = None
    /\ last_answer = "none"
    /\ calls = [p \in Procs |-> 0]
    /\ served = [p \in Procs |-> <<>>]
    /\ served_n = [p \in Procs |-> 0]
    /\ last_page = [p \in Procs |-> None]
    /\ handler = "none"
    /\ device_id = <<>>
    /\ upstream = 0
    /\ devices = <<>>
    /\ updates = <<>>
    /\ response = None
    /\ window = NoWindow

\* ------------------------------------------------------ the refresh guard

\* asyncio.Lock.acquire() takes the lock at once only when it is unlocked and
\* nobody waits; release() hands it to the first waiter.  A lock handed to a
\* waiter that has not resumed yet is held by that waiter here.
\* Mutant: the guard is never found taken.
LockFreeAlways == TRUE

LockFree == lock_holder = 0

\* Mutant: leaving the guarded block does not give the guard up.
ReleasedHolderKept == lock_holder

ReleasedHolder ==
    IF lock_waiters = <<>> THEN 0 ELSE Head(lock_waiters)

ReleasedWaiters ==
    IF lock_waiters = <<>> THEN <<>> ELSE Tail(lock_waiters)

\* Mutant: release() wakes nobody.
PcAfterReleaseNoWake(p, to) == [pc EXCEPT ![p] = to]

\* Mutant: an exception of the holder is raised in the waiters as well.
PcAfterReleaseSharesFailure(p, to) ==
    [q \in Procs |->
        IF q = p THEN to
        ELSE IF impl = "async" /\ pc[q] = "lock_wait" /\ to = "failed"
        THEN "failed"
        ELSE IF impl = "async" /\ lock_waiters # <<>> /\ q = Head(lock_waiters)
        THEN "lock_granted"
        ELSE pc[q]]

\* pc after caller p left the `async with self._lock` block and moved to
\* position `to`; the first waiter, if any, is woken.
PcAfterRelease(p, to) ==
    [q \in Procs |->
        IF q = p THEN to
        ELSE IF impl = "async" /\ lock_waiters # <<>> /\ q = Head(lock_waiters)
        THEN "lock_granted"
        ELSE pc[q]]

\* ensure_authenticated() of caller p returns (raised = FALSE) or raises: the
\* guard is released; _get_headers builds the Authorization header from
\* self.access_token (tok, its value at this moment) and the data GET is
\* sent.  An "ensure" caller called ensure_authenticated() directly.
AfterEnsure(p, tok, raised, errv) ==
    LET to == IF raised THEN AfterRaise
              ELSE IF op[p] = "ensure" THEN "done" ELSE "get_wait"
    IN  /\ pc' = PcAfterRelease(p, to)
        /\ IF impl = "async"
           THEN /\ lock_holder' = ReleasedHolder
                /\ lock_waiters' = ReleasedWaiters
           ELSE UNCHANGED lockVars
        /\ err' = IF raised THEN [err EXCEPT ![p] = errv] ELSE err
        /\ IF to = "get_wait"
           THEN /\ req' = [req EXCEPT ![p] =
                              [anchor |-> AnchorParam(anchor[p]),
                               bearer |-> AuthorizationHeader(tok)]]
                /\ calls' = [calls EXCEPT ![p] = @ + 1]
           ELSE UNCHANGED <<req, calls>>

\* Mutant: the guard is given up before the exchange is awaited.
HeldByNobody(p) == 0

\* The guard while caller p awaits the token endpoint: kept (async class).
HeldBy(p) == IF impl = "async" THEN p ELSE lock_holder

\* Mutant: the token is refreshed on every call.
AdmittedAlwaysRefreshes(p) ==
    /\ pc' = [pc EXCEPT ![p] = "auth_wait"]
    /\ lock_holder' = HeldBy(p)
    /\ exch' = [exch EXCEPT ![p] = Counted(auth_count + 1)]
    /\ auth_count' = Counted(auth_count + 1)
    /\ UNCHANGED <<clientVars, lock_waiters, err, req, calls, last_auth,
                        last_ok, last_answer>>

\* ensure_authenticated() line `if not self.is_token_valid()`, reached by
\* caller p (holding the guard in the async class): a valid token lets the
\* call return, an invalid one starts a token exchange, the guard still held.
Admitted(p) ==
    IF IsTokenValid
    THEN /\ AfterEnsure(p, access_token, FALSE, "")
         /\ UNCHANGED <<clientVars, exch, histAuth>>
    ELSE /\ pc' = [pc EXCEPT ![p] = "auth_wait"]
         /\ lock_holder' = HeldBy(p)
         /\ exch' = [exch EXCEPT ![p] = Counted(auth_count + 1)]
         /\ auth_count' = Counted(auth_count + 1)
         /\ UNCHANGED <<clientVars, lock_waiters, err, req, calls, last_auth,
                        last_ok, last_answer>>

\* ----------------------------------------------------------------- actions

\* A caller starts an operation of the client: ensure_authenticated(),
\* get_devices() / get_software_updates(), or a drain get_all_devices() /
\* get_all_software_updates().  Callers are interchangeable.  Two workloads
\* are explored: caller 1 runs a drain, or the callers run
\* ensure_authenticated() and page calls next to each other (a drain's page
\* request is the page call's code).
Call(p, o) ==
    /\ phase = "serving"
    /\ pc[p] = "idle"
    /\ o = "drain" => p = 1 /\ \A q \in Procs : op[q] = "none"
    /\ o # "drain" => op[1] # "drain"
    /\ op' = [op EXCEPT ![p] = o]
    /\ pc' = [pc EXCEPT ![p] = "enter"]
    /\ UNCHANGED <<svcVars, window, config, drained_before, impl, phase, now, clientVars, lockVars, anchor, all_items,
                   req, pending_tok, result, err, exch, histAuth, histPages>>

\* Mutant: a drain starts from the collection of the drain before.
FreshCollectionKept(p) == all_items[p]

\* all_devices = [] / all_updates = [] at the start of a drain.
FreshCollection(p) == <<>>

\* Caller p, whose drain returned, calls the drain again (followed once):
\* the locals of the new call are initialised, what the earlier call
\* returned is the caller's.
CallAgain(p) ==
    /\ pc[p] = "done"
    /\ op[p] = "drain"
    /\ ~drained_before
    /\ drained_before' = TRUE
    /\ pc' = [pc EXCEPT ![p] = "enter"]
    /\ all_items' = [all_items EXCEPT ![p] = FreshCollection(p)]
    /\ anchor' = [anchor EXCEPT ![p] = None]
    /\ result' = [result EXCEPT ![p] = None]
    /\ calls' = [calls EXCEPT ![p] = 0]
    /\ served' = [served EXCEPT ![p] = <<>>]
    /\ served_n' = [served_n EXCEPT ![p] = 0]
    /\ last_page' = [last_page EXCEPT ![p] = None]
    /\ UNCHANGED <<svcVars, window, config, impl, phase, now, clientVars,
                   lockVars, op, req, pending_tok, err, exch, histAuth>>

\* `async with self._lock:` (async) / entry of ensure_authenticated (sync).
\* A drain sends at most MaxPages page requests in the model.
Enter(p) ==
    /\ pc[p] = "enter"
    /\ op[p] = "drain" => calls[p] < MaxPages
    /\ IF impl = "async" /\ ~LockFree
       THEN /\ lock_waiters' = Append(lock_waiters, p)
            /\ pc' = [pc EXCEPT ![p] = "lock_wait"]
            /\ UNCHANGED <<clientVars, lock_holder, err, req, calls, exch,
                           histAuth>>
       ELSE Admitted(p)
    /\ UNCHANGED <<svcVars, window, config, drained_before, impl, phase, now, op, anchor, all_items, pending_tok,
                   result, served, served_n, last_page>>

\* A waiter woken by release() resumes inside the guard.
Granted(p) ==
    /\ pc[p] = "lock_granted"
    /\ Admitted(p)
    /\ UNCHANGED <<svcVars, window, config, drained_before, impl, phase, now, op, anchor, all_items, pending_tok,
                   result, served, served_n, last_page>>

\* The answer of the token endpoint reaches authenticate() called by
\* ensure_authenticated().  In the async class nothing suspends between
\* response.json() and the return; a thread of the synchronous class can be
\* preempted between the store of access_token and the store of token_expiry.
AuthResponse(p) ==
    /\ pc[p] = "auth_wait"
    /\ \E r \in AuthResponses :
        IF impl = "sync" /\ r.kind = "ok" /\ r.has_token
        THEN /\ access_token' = TokenAfter(r, exch[p])
             /\ pending_tok' = [pending_tok EXCEPT ![p] = r]
             /\ pc' = [pc EXCEPT ![p] = "auth_expiry"]
             /\ last_answer' = AnswerKind(r)
             /\ UNCHANGED <<token_expiry, lockVars, err, req, calls, exch,
                            last_auth, last_ok>>
        ELSE /\ access_token' = TokenAfter(r, exch[p])
             /\ token_expiry' = ExpiryAfter(r)
             /\ AfterEnsure(p, TokenAfter(r, exch[p]), AuthRaises(r), AuthError(r))
             /\ last_auth' = Returned(r, exch[p])
             /\ last_ok' = StoredBy(r, exch[p])
             /\ last_answer' = AnswerKind(r)
             /\ exch' = [exch EXCEPT ![p] = 0]
             /\ UNCHANGED pending_tok
    /\ UNCHANGED <<svcVars, window, config, drained_before, impl, phase, now, op, anchor, all_items, result,
                   auth_count, served, served_n, last_page>>

\* Synchronous class: lines 68-72 of authenticate(), after access_token was
\* stored; _get_headers reads self.access_token afterwards.
AuthStoreExpiry(p) ==
    /\ pc[p] = "auth_expiry"
    /\ LET r == pending_tok[p] IN
        /\ token_expiry' = ExpiryAfter(r)
        /\ AfterEnsure(p, access_token, AuthRaises(r), AuthError(r))
        /\ last_auth' = Returned(r, exch[p])
        /\ last_ok' = StoredBy(r, exch[p])
        /\ pending_tok' = [pending_tok EXCEPT ![p] = NoAnswer]
        /\ exch' = [exch EXCEPT ![p] = 0]
    /\ UNCHANGED <<svcVars, window, config, drained_before, impl, phase, now, access_token, op, anchor, all_items,
                   result, auth_count, last_answer, served, served_n,
                   last_page>>

\* The answer of a data GET reaches get_devices / get_software_updates; a
\* drain then runs the body of its `while True` loop.
GetResponse(p) ==
    /\ pc[p] = "get_wait"
    /\ \E r \in GetResponses :
        IF r.status # 200
        THEN /\ pc' = [pc EXCEPT ![p] = AfterRaise]
             /\ err' = [err EXCEPT ![p] =
                          IF r.status = 0 THEN "transport" ELSE "http"]
             /\ UNCHANGED <<anchor, all_items, result, served, served_n,
                            last_page>>
        ELSE /\ err' = err
             /\ IF op[p] = "page"
                THEN /\ pc' = [pc EXCEPT ![p] = "done"]
                     /\ UNCHANGED <<anchor, all_items, result, served,
                                    served_n, last_page>>
                ELSE LET all == Extended(all_items[p], r) IN
                     /\ served' = [served EXCEPT ![p] =
                            @ \o (IF r.items = None THEN <<>> ELSE r.items[1])]
                     /\ served_n' = [served_n EXCEPT ![p] = @ + 1]
                     /\ last_page' = [last_page EXCEPT ![p] = Some(r)]
                     /\ all_items' = [all_items EXCEPT ![p] = all]
                     /\ IF ~DrainContinues(p, r)
                        THEN /\ result' = [result EXCEPT ![p] = DrainResult(all)]
                             /\ pc' = [pc EXCEPT ![p] = "done"]
                             /\ UNCHANGED anchor
                        ELSE /\ anchor' = [anchor EXCEPT ![p] = r.nextAnchor]
                             /\ pc' = [pc EXCEPT ![p] = "enter"]
                             /\ UNCHANGED result
    /\ req' = [req EXCEPT ![p] = NoRequest]
    /\ UNCHANGED <<svcVars, window, config, drained_before, impl, phase, now, clientVars, lockVars, op,
                   pending_tok, exch, histAuth, calls>>

\* lifespan() (main.py) and the scripts call authenticate() once, directly,
\* before any other use of the client.
StartupAuthenticate ==
    /\ phase = "startup"
    /\ phase' = "startup_auth"
    /\ auth_count' = Counted(auth_count + 1)
    /\ UNCHANGED <<svcVars, window, config, drained_before, impl, now, clientVars, lockVars, pc, op, anchor, all_items,
                   req, pending_tok, result, err, exch, last_auth, last_ok,
                   last_answer, histPages>>

\* The answer to that first exchange; lifespan() catches the exception and
\* the service starts all the same.
StartupResponse ==
    /\ phase = "startup_auth"
    /\ \E r \in AuthResponses :
        /\ access_token' = TokenAfter(r, auth_count)
        /\ token_expiry' = ExpiryAfter(r)
        /\ last_auth' = Returned(r, auth_count)
        /\ last_ok' = StoredBy(r, auth_count)
        /\ last_answer' = AnswerKind(r)
    /\ phase' = "serving"
    /\ UNCHANGED <<svcVars, window, config, drained_before, impl, now, lockVars, pc, op, anchor, all_items, req,
                   pending_tok, result, err, exch, auth_count, histPages>>

\* The clock advances by one second.
Tick ==
    /\ now < MaxNow
    /\ now' = now + 1
    /\ UNCHANGED <<svcVars, window, config, drained_before, impl, phase, clientVars, lockVars, pc, op, anchor,
                   all_items, req, pending_tok, result, err, exch, histAuth,
                   histPages>>

Next ==
    \/ \E p \in Procs, o \in Ops : Call(p, o)
    \/ \E p \in Procs : CallAgain(p)
    \/ \E p \in Procs : Enter(p)
    \/ \E p \in Procs : Granted(p)
    \/ \E p \in Procs : AuthResponse(p)
    \/ \E p \in Procs : AuthStoreExpiry(p)
    \/ \E p \in Procs : GetResponse(p)
    \/ StartupAuthenticate
    \/ StartupResponse
    \/ Tick

Spec == Init /\ [][Next]_vars

\* ------------------- concurrent callers of ensure_authenticated() (async)

\* The callers call ensure_authenticated() of one AsyncWithSecureClient that
\* nothing authenticated before.
InitEnsure == Init /\ impl = "async" /\ phase = "serving"

NextEnsure ==
    \/ \E p \in Procs : Call(p, "ensure")
    \/ \E p \in Procs : Enter(p)
    \/ \E p \in Procs : Granted(p)
    \/ \E p \in Procs : AuthResponse(p)
    \/ Tick

\* The event loop runs every coroutine that can run, and every token
\* exchange is answered (by a token or by a failure).
FairEnsure ==
    \A p \in Procs :
        /\ WF_vars(Enter(p))
        /\ WF_vars(Granted(p))
        /\ WF_vars(AuthResponse(p))

SpecEnsure == InitEnsure /\ [][NextEnsure]_vars /\ FairEnsure

\* ------------------------------------ one call of get_devices(), timed

\* Seconds that may pass between two steps of the call.
Delays == {30, 59}

\* expires_in of the answers to the refresh of the timed call.
WindowExpiresIn == {30, 60, 120}

\* Answers of the token endpoint to the timed call: a failure, or a token
\* with a numeric expires_in.
WindowAuthResponses ==
    [kind : {"http_error"}, has_token : {FALSE}, exp_kind : {"absent"},
     expires_in : {0}]
    \cup [kind : {"ok"}, has_token : {TRUE}, exp_kind : {"int"},
          expires_in : WindowExpiresIn]

windowFrame == <<svcVars, impl, config, drained_before, phase, lock_holder, lock_waiters, op, anchor,
                 all_items, pending_tok, result, err, exch, auth_count,
                 last_ok, last_answer, calls, served, served_n, last_page>>

\* Caller 1 calls get_devices(): _get_headers awaits ensure_authenticated(),
\* which takes the free guard and checks is_token_valid(); with a valid
\* token the header is built at once.
CheckToken ==
    /\ pc[1] = "idle"
    /\ IF IsTokenValid
       THEN /\ pc' = [pc EXCEPT ![1] = "built"]
            /\ req' = [req EXCEPT ![1] =
                          [anchor |-> None,
                           bearer |-> AuthorizationHeader(access_token)]]
            /\ window' = [kind |-> "valid", from |-> now, sent |-> -1]
       ELSE /\ pc' = [pc EXCEPT ![1] = "auth_wait"]
            /\ UNCHANGED <<req, window>>
    /\ UNCHANGED <<windowFrame, now, clientVars, last_auth>>

\* The token endpoint answers the refresh of the timed call; after a
\* successful one the header is built from the new token.
RefreshAnswered ==
    /\ pc[1] = "auth_wait"
    /\ \E r \in WindowAuthResponses :
        /\ access_token' = TokenAfter(r, 1)
        /\ token_expiry' = ExpiryAfter(r)
        /\ last_auth' = Returned(r, 1)
        /\ IF AuthRaises(r)
           THEN /\ pc' = [pc EXCEPT ![1] = "idle"]
                /\ UNCHANGED <<req, window>>
           ELSE /\ pc' = [pc EXCEPT ![1] = "built"]
                /\ req' = [req EXCEPT ![1] =
                              [anchor |-> None,
                               bearer |-> AuthorizationHeader(TokenAfter(r, 1))]]
                /\ window' = [kind |-> "refreshed", from |-> now, sent |-> -1]
    /\ UNCHANGED <<windowFrame, now>>

\* client.get(url, headers=headers, params=params): the request leaves.
SendRequest ==
    /\ pc[1] = "built"
    /\ pc' = [pc EXCEPT ![1] = "get_wait"]
    /\ window' = [window EXCEPT !.sent = now]
    /\ UNCHANGED <<windowFrame, now, clientVars, req, last_auth>>

\* The data GET is answered and get_devices() is over.
RequestAnswered ==
    /\ pc[1] = "get_wait"
    /\ pc' = [pc EXCEPT ![1] = "idle"]
    /\ req' = [req EXCEPT ![1] = NoRequest]
    /\ window' = NoWindow
    /\ UNCHANGED <<windowFrame, now, clientVars, last_auth>>

\* d seconds pass.
Elapse(d) ==
    /\ now + d <= MaxClock
    /\ now' = now + d
    /\ UNCHANGED <<windowFrame, clientVars, pc, req, last_auth, window>>

InitWindow == Init /\ impl = "async" /\ phase = "serving"

NextWindow ==
    \/ CheckToken
    \/ RefreshAnswered
    \/ SendRequest
    \/ RequestAnswered
    \/ \E d \in Delays : Elapse(d)

SpecWindow == InitWindow /\ [][NextWindow]_vars

\* ------------------------------------------- the local service (main.py)

\* Device ids of a lookup: every string of 1..MaxIdLen characters over a few
\* characters (a string is the sequence of its characters).
IdChars == {"4", "0", "x"}
DeviceIds == UNION {[1..n -> IdChars] : n \in 1..MaxIdLen}

\* Status of the upstream answer to the lookup's GET; 0: no answer
\* (transport failure).
LookupStatuses == {0, 200, 401, 404, 500}

Lookups == {"get_device", "get_device_updates"}

\* str() of a status code: its three decimal digits.
Digit(d) == <<"0", "1", "2", "3", "4", "5", "6", "7", "8", "9">>[d + 1]
StatusDigits(st) ==
    <<Digit(st \div 100), Digit((st \div 10) % 10), Digit(st % 10)>>

\* The url the client requests for handler h and device id.  Fixed pieces of
\* text are one element each; none of them can be part of a "404".
LookupUrl(h, id) ==
    <<"https://api.connect.withsecure.com",
      IF h = "get_device" THEN "/devices/v1/" ELSE "/software-updates/v1/">>
    \o id

\* str(e) of the exception the client call raised: raise_for_status() names
\* the status and the requested url; a transport failure names neither.
ExceptionText(h, id, st) ==
    IF st = 0
    THEN <<"All connection attempts failed">>
    ELSE <<IF st < 500 THEN "Client error '" ELSE "Server error '">>
         \o StatusDigits(st) \o <<" ", "' for url '">> \o LookupUrl(h, id)
         \o <<"' For more information check: .../Web/HTTP/Status/">>
         \o StatusDigits(st)

\* `"404" in str(e)`
Has404(text) ==
    \E i \in 1..(Len(text) - 2) :
        text[i] = "4" /\ text[i + 1] = "0" /\ text[i + 2] = "4"

\* Status code of the local answer of a lookup handler.
LookupStatus(h, id, st) ==
    IF st = 200 THEN 200
    ELSE IF Has404(ExceptionText(h, id, st)) THEN 404
    ELSE 500

\* GET /devices/{device_id}
get_device ==
    /\ handler = "none"
    /\ \E id \in DeviceIds, st \in LookupStatuses :
        /\ device_id' = id
        /\ upstream' = st
        /\ response' = Some([status |-> LookupStatus("get_device", id, st)])
    /\ handler' = "get_device"
    /\ UNCHANGED <<coreVars, window, devices, updates>>

\* GET /updates/{device_id}
get_device_updates ==
    /\ handler = "none"
    /\ \E id \in DeviceIds, st \in LookupStatuses :
        /\ device_id' = id
        /\ upstream' = st
        /\ response' = Some([status |-> LookupStatus("get_device_updates", id, st)])
    /\ handler' = "get_device_updates"
    /\ UNCHANGED <<coreVars, window, devices, updates>>

\* ---------------------------------------------- statistics: the join

SeqsUpTo(S, n) == UNION {[1..k -> S] : k \in 0..n}

\* Ids of the devices, and those of them update records exist for.
DeviceKeys == {"1", "2", "3"}
UpdateKeys == {"1", "2"}

\* A device record: its id, and its platform and online flag, which a bare
\* record lacks.
DeviceRecords ==
    [id : {Some(k) : k \in DeviceKeys}, platform : {None}, online : {None}]
    \cup [id : {Some(k) : k \in DeviceKeys},
          platform : {Some("Windows")}, online : {Some(TRUE)}]

\* An update record: deviceId and pendingSoftwareUpdates (empty or one
\* update titled "x"; for device "1" also missing or one update titled "y");
\* a record may lack deviceId.
UpdateRecords ==
    [deviceId : {Some(k) : k \in UpdateKeys},
     pending : {Some(<<>>), Some(<<"x">>)}]
    \cup [deviceId : {Some("1")}, pending : {None, Some(<<"y">>)}]
    \cup [deviceId : {None}, pending : {None}]

DeviceLists == SeqsUpTo(DeviceRecords, MaxDevices)
UpdateLists == SeqsUpTo(UpdateRecords, MaxUpdates)

Front(q) == SubSeq(q, 1, Len(q) - 1)
Last(q) == q[Len(q)]

\* item["deviceId"] raises KeyError on a record without deviceId.
HasKeyError(us) == \E i \in DOMAIN us : us[i].deviceId = None

\* Mutant: the first record of a deviceId is kept.
RECURSIVE UpdatesByDeviceFirstWins(_)
UpdatesByDeviceFirstWins(us) ==
    IF us = <<>>
    THEN [k \in {} |-> Last(us)]
    ELSE LET m == UpdatesByDeviceFirstWins(Front(us))
             item == Last(us)
         IN  [k \in DOMAIN m \cup {item.deviceId[1]} |->
                 IF k \in DOMAIN m THEN m[k] ELSE item]

\* {item["deviceId"]: item for item in updates}: a later record replaces an
\* earlier one with the same key.
RECURSIVE UpdatesByDevice(_)
UpdatesByDevice(us) ==
    IF us = <<>>
    THEN [k \in {} |-> Last(us)]
    ELSE LET m == UpdatesByDevice(Front(us))
             item == Last(us)
         IN  [k \in DOMAIN m \cup {item.deviceId[1]} |->
                 IF k = item.deviceId[1] THEN item ELSE m[k]]

\* update_info.get("pendingSoftwareUpdates", [])
PendingOf(u) == IF u.pending = None THEN <<>> ELSE u.pending[1]

\* Mutant: a device with an update record is up to date whatever is pending.
BucketIgnoringPending(d, m) ==
    IF d.id # None /\ d.id[1] \in DOMAIN m THEN "up_to_date" ELSE "no_info"

\* The branch of the join loop taken for device d with mapping m.
Bucket(d, m) ==
    IF d.id # None /\ d.id[1] \in DOMAIN m
    THEN IF PendingOf(m[d.id[1]]) # <<>> THEN "pending" ELSE "up_to_date"
    ELSE "no_info"

\* status_counts after the join loop over ds.
RECURSIVE StatusCounts(_, _)
StatusCounts(ds, m) ==
    IF ds = <<>>
    THEN [up_to_date |-> 0, pending |-> 0, no_info |-> 0]
    ELSE [StatusCounts(Front(ds), m) EXCEPT ![Bucket(Last(ds), m)] = @ + 1]

\* device.get("platform", "Unknown")
PlatformOf(d) == IF d.platform = None THEN "Unknown" ELSE d.platform[1]

\* d.get("online", False), as a condition.
OnlineOf(d) == d.online # None /\ d.online[1]

\* sum(1 for d in devices if d.get("online", False))
OnlineCount(ds) == Len(SelectSeq(ds, OnlineOf))

\* platform_counts, in insertion order.
RECURSIVE PlatformCounts(_)
PlatformCounts(ds) ==
    IF ds = <<>>
    THEN <<>>
    ELSE LET before == PlatformCounts(Front(ds))
             pl == PlatformOf(Last(ds))
         IN  IF \E i \in DOMAIN before : before[i].platform = pl
             THEN [i \in DOMAIN before |->
                     IF before[i].platform = pl
                     THEN [before[i] EXCEPT !.count = @ + 1]
                     ELSE before[i]]
             ELSE Append(before, [platform |-> pl, count |-> 1])

\* Mutant: an empty collection reports 100 %.
PercentageEmptyIsFull(count, total) ==
    IF total > 0 THEN (2 * count * 10000 + total) \div (2 * total) ELSE 10000

\* round((count / total_devices * 100) if total_devices > 0 else 0, 2), in
\* hundredths of a percent.
Percentage(count, total) ==
    IF total > 0 THEN (2 * count * 10000 + total) \div (2 * total) ELSE 0

\* Mutant: pending_details lists the pending devices last first.
PendingDetailsReversed(ds, m) ==
    LET pend == SelectSeq(ds, LAMBDA d : Bucket(d, m) = "pending")
    IN  [i \in DOMAIN pend |->
            [device_id |-> pend[Len(pend) + 1 - i].id[1],
             pending_updates |-> PendingOf(m[pend[Len(pend) + 1 - i].id[1]])]]

\* pending_details: the devices of the pending branch, in collection order.
PendingDetails(ds, m) ==
    LET pend == SelectSeq(ds, LAMBDA d : Bucket(d, m) = "pending")
    IN  [i \in DOMAIN pend |->
            [device_id |-> pend[i].id[1],
             pending_updates |-> PendingOf(m[pend[i].id[1]])]]

\* The answer of GET /statistics for drained collections ds and us; any
\* exception becomes a 500.
Statistics(ds, us) ==
    IF HasKeyError(us)
    THEN [status |-> 500]
    ELSE LET m == UpdatesByDevice(us)
             total == Len(ds)
             counts == StatusCounts(ds, m)
             platforms == PlatformCounts(ds)
         IN  [status |-> 200,
              total_devices |-> total,
              devices_online |-> OnlineCount(ds),
              devices_offline |-> total - OnlineCount(ds),
              devices_with_updates |-> Len(us),
              devices_up_to_date |-> counts.up_to_date,
              devices_with_pending_updates |-> counts.pending,
              devices_by_platform |->
                 [i \in DOMAIN platforms |->
                     [platform |-> platforms[i].platform,
                      count |-> platforms[i].count,
                      percentage |-> Percentage(platforms[i].count, total)]],
              devices_by_status |->
                 [i \in 1..3 |->
                     LET st == <<"up_to_date", "pending", "no_info">>[i]
                     IN  [status |-> st,
                          count |-> counts[st],
                          percentage |-> Percentage(counts[st], total)]],
              devices_with_pending_details |-> PendingDetails(ds, m)]

\* Number of devices with an update record.
WithRecord(ds, m) ==
    Len(SelectSeq(ds, LAMBDA d : Bucket(d, m) # "no_info"))

\* stats["update_details"]: one entry per device with an update record, in
\* collection order.
UpdateDetails(ds, m) ==
    LET with == SelectSeq(ds, LAMBDA d : Bucket(d, m) # "no_info")
    IN  [i \in DOMAIN with |->
            [device_id |-> with[i].id[1],
             status |-> Bucket(with[i], m),
             pending_update_names |-> PendingOf(m[with[i].id[1]])]]

\* What analyze_update_status(devices, updates) returns (monitor_updates.py);
\* a KeyError leaves the function.  devices_by_status is a defaultdict: a
\* status that was never counted reads 0.
AnalyzeUpdateStatus(ds, us) ==
    IF HasKeyError(us)
    THEN [outcome |-> "raised"]
    ELSE LET m == UpdatesByDevice(us)
             counts == StatusCounts(ds, m)
         IN  [outcome |-> "returned",
              total_devices |-> Len(ds),
              devices_with_updates |-> WithRecord(ds, m),
              devices_up_to_date |-> counts.up_to_date,
              devices_with_pending_updates |-> counts.pending,
              devices_by_status |-> counts,
              devices_by_platform |-> PlatformCounts(ds),
              update_details |-> UpdateDetails(ds, m)]

\* (count / stats["total_devices"] * 100) if stats["total_devices"] > 0
\* else 0, for each counted status and each platform, as print_update_report
\* computes it (hundredths of a percent, before formatting).
ReportPercentages(stats) ==
    [by_status |->
        [st \in {b \in {"up_to_date", "pending", "no_info"} :
                    stats.devices_by_status[b] > 0} |->
            Percentage(stats.devices_by_status[st], stats.total_devices)],
     by_platform |->
        [i \in DOMAIN stats.devices_by_platform |->
            Percentage(stats.devices_by_platform[i].count, stats.total_devices)]]

\* GET /statistics, after both drains returned ds and us.
get_statistics ==
    /\ handler = "none"
    /\ \E ds \in DeviceLists, us \in UpdateLists :
        /\ devices' = ds
        /\ updates' = us
        /\ response' = Some(Statistics(ds, us))
    /\ handler' = "get_statistics"
    /\ UNCHANGED <<coreVars, window, device_id, upstream>>

\* monitor_updates(): analyze_update_status(devices, updates) on the drained
\* collections.
analyze_update_status ==
    /\ handler = "none"
    /\ \E ds \in DeviceLists, us \in UpdateLists :
        /\ devices' = ds
        /\ updates' = us
        /\ response' = Some(AnalyzeUpdateStatus(ds, us))
    /\ handler' = "analyze_update_status"
    /\ UNCHANGED <<coreVars, window, device_id, upstream>>

\* monitor_updates(): print_update_report(stats) on what the analysis returned.
print_update_report ==
    /\ handler = "analyze_update_status"
    /\ response[1].outcome = "returned"
    /\ response' = Some([outcome |-> "printed", stats |-> response[1],
                         percentages |-> ReportPercentages(response[1])])
    /\ handler' = "print_update_report"
    /\ UNCHANGED <<coreVars, window, device_id, upstream, devices, updates>>

\* total_pending_updates: the sum of len(update.get("pendingSoftwareUpdates",
\* [])) over the update records.
RECURSIVE TotalPending(_)
TotalPending(us) ==
    IF us = <<>> THEN 0 ELSE TotalPending(Front(us)) + Len(PendingOf(Last(us)))

\* online_devices/total_devices*100 formatted with :.1f, in tenths of a
\* percent; None where the division raises ZeroDivisionError.
OnlinePercentage(online, total) ==
    IF total = 0
    THEN None
    ELSE Some((2 * online * 1000 + total) \div (2 * total))

\* What example_statistics() does with the drained collections ds and us
\* (examples.py): the figures it prints, or the exception that leaves it.
ExampleStatistics(ds, us) ==
    LET total == Len(ds)
        online == OnlineCount(ds)
        pct == OnlinePercentage(online, total)
    IN  IF pct = None
        THEN [outcome |-> "raised", error |-> "ZeroDivisionError"]
        ELSE [outcome |-> "printed",
              total_devices |-> total,
              online_devices |-> online,
              online_percentage |-> pct[1],
              offline_devices |-> total - online,
              total_pending_updates |-> TotalPending(us)]

\* examples.py example_statistics(): both collections are drained, then the
\* figures are computed and printed.
example_statistics ==
    /\ handler = "none"
    /\ \E ds \in DeviceLists, us \in UpdateLists :
        /\ devices' = ds
        /\ updates' = us
        /\ response' = Some(ExampleStatistics(ds, us))
    /\ handler' = "example_statistics"
    /\ UNCHANGED <<coreVars, window, device_id, upstream>>

\* What the probe get_devices(limit=1) of the health check meets: whether the
\* stored token is valid, the answer of the token endpoint if it is not, and
\* the status of the data GET (0: no answer) if the request is sent.
Probes ==
    [valid : {TRUE}, refresh : {None}, get : LookupStatuses]
    \cup [valid : {FALSE}, refresh : {Some(r) : r \in AuthResponses},
          get : LookupStatuses]

\* The probe raises: the refresh raised, or the data GET did not answer 200.
ProbeRaises(pr) ==
    \/ ~pr.valid /\ AuthRaises(pr.refresh[1])
    \/ pr.get # 200

\* Data requests the probe sent: none when the refresh raised.
ProbeRequests(pr) ==
    IF ~pr.valid /\ AuthRaises(pr.refresh[1]) THEN 0 ELSE 1

\* Mutant: a failed probe leaves the handler as an exception, answered by the
\* general exception handler.
HealthResponsePropagates(raised) ==
    IF raised
    THEN [status |-> 500]
    ELSE [status |-> 200, health |-> "healthy",
          withsecure_api_connected |-> TRUE]

\* The try/except of health_check around the probe and the HealthResponse it
\* returns.
HealthResponse(raised) ==
    [status |-> 200,
     health |-> IF raised THEN "degraded" ELSE "healthy",
     withsecure_api_connected |-> ~raised]

\* GET /health on the initialised client.
health_check ==
    /\ handler = "none"
    /\ \E pr \in Probes :
        /\ upstream' = IF ProbeRequests(pr) = 1 THEN pr.get ELSE 0
        /\ response' = Some([probe |-> pr, requests |-> ProbeRequests(pr),
                             answer |-> HealthResponse(ProbeRaises(pr))])
    /\ handler' = "health_check"
    /\ UNCHANGED <<coreVars, window, device_id, devices, updates>>

\* The service after start-up: the client is the async one.
InitService == Init /\ impl = "async" /\ phase = "serving"

NextService ==
    \/ get_device
    \/ get_device_updates
    \/ get_statistics
    \/ analyze_update_status
    \/ print_update_report
    \/ example_statistics
    \/ health_check

SpecService == InitService /\ [][NextService]_vars

\* ------------------------------------------------------------------ claims

\* Callers inside a token exchange started by ensure_authenticated().
Refreshing == {p \in Procs : pc[p] \in {"auth_wait", "auth_expiry"}}

C2_OneRefreshInFlight ==
    impl = "async" =>
        /\ Cardinality(Refreshing) <= 1
        /\ \A p \in Refreshing : lock_holder = p

\* C2 witness: one caller awaits the token endpoint while another one waits
\* for the guard.
C2_Witness ==
    /\ impl = "async"
    /\ \E p, q \in Procs : pc[p] = "auth_wait" /\ pc[q] = "lock_wait"

\* C3 (as stated): callers of the synchronous class are serialized, only one
\* refresh happens at a time.
C3_SyncOneRefreshAtATime ==
    impl = "sync" => Cardinality(Refreshing) <= 1

\* C4: is_token_valid() is true exactly when a token and an expiry are stored
\* and now < token_expiry - 60; at now = token_expiry - 60 it is false.
C4_ValidIffBeforeMargin ==
    IsTokenValid <=>
        /\ access_token # None
        /\ token_expiry # None
        /\ now + 60 < token_expiry[1]

\* C4 witness: a stored token exactly at the margin, now = token_expiry - 60,
\* reported invalid.
C4_Witness ==
    /\ access_token # None
    /\ token_expiry # None
    /\ now = token_expiry[1] - 60
    /\ ~IsTokenValid

\* expires_in of a recorded answer as the specification states it.
SpecExpiresIn(la) == IF la.exp_kind = "absent" THEN 3600 ELSE la.expires_in

\* C5 (as stated): for every expires_in = E the endpoint returns,
\* is_token_valid() is true immediately after the authentication.
C5_ValidRightAfterAuthentication ==
    (impl = "async" /\ last_auth # None /\ now = last_auth[1].at)
        => IsTokenValid

\* C5 (amended): a token issued at issued_at with expires_in = E > 60 is valid
\* from the authentication on and exactly until now = issued_at + E - 60;
\* a token issued with E <= 60 is never valid.
C5_ValidUntilMargin ==
    (impl = "async" /\ last_auth # None) =>
        LET la == last_auth[1]
            E == SpecExpiresIn(la)
        IN  IF E > 60
            THEN IsTokenValid <=> now < la.at + E - 60
            ELSE ~IsTokenValid

\* C5 witness: a token issued with E > 60 reaches now = issued_at + E - 60
\* and is invalid there.
C5_Witness ==
    /\ impl = "async"
    /\ last_auth # None
    /\ SpecExpiresIn(last_auth[1]) > 60
    /\ now = last_auth[1].at + SpecExpiresIn(last_auth[1]) - 60
    /\ ~IsTokenValid

\* Caller p's authenticate() returns normally in this step.
AuthReturns(p) ==
    pc[p] \in {"auth_wait", "auth_expiry"} /\ pc'[p] \in {"done", "get_wait"}

\* C6: an authenticate() that succeeds stores the access_token of the answer
\* and sets token_expiry to the clock reading of the call plus expires_in,
\* 3600 when the answer has no expires_in.
C6_StoresTokenAndExpiry ==
    [][/\ \A p \in Procs :
            /\ AuthReturns(p) =>
                /\ last_auth' # None
                /\ token_expiry' = Some(now + SpecExpiresIn(last_auth'[1]))
                /\ impl = "async" => access_token' = Some(last_auth'[1].k)
            /\ (pc[p] = "auth_wait" /\ pc'[p] = "auth_expiry") =>
                access_token' = Some(exch[p])
       /\ (phase = "startup_auth" /\ phase' = "serving" /\ last_auth' # None) =>
            /\ access_token' = Some(last_auth'[1].k)
            /\ token_expiry' = Some(now + SpecExpiresIn(last_auth'[1]))
      ]_vars

\* C6 witness: an answer without expires_in was stored with the default.
C6_Witness ==
    /\ last_auth # None
    /\ last_auth[1].exp_kind = "absent"
    /\ access_token = Some(last_auth[1].k)
    /\ token_expiry = Some(last_auth[1].at + 3600)

\* Caller p evaluates `if not self.is_token_valid()` in this step.
Checks(p) ==
    \/ pc[p] = "enter" /\ pc'[p] \notin {"enter", "lock_wait"}
    \/ pc[p] = "lock_granted" /\ pc'[p] # "lock_granted"

\* C7: ensure_authenticated() starts a token exchange exactly when
\* is_token_valid() is false at its check; with a valid token it starts none
\* and leaves access_token and token_expiry as they are.
C7_RefreshOnlyWhenInvalid ==
    [][\A p \in Procs :
         Checks(p) =>
            /\ pc'[p] = "auth_wait" <=> ~IsTokenValid
            /\ IsTokenValid =>
                /\ access_token' = access_token
                /\ token_expiry' = token_expiry
                /\ auth_count' = auth_count
      ]_vars

\* C7 witness: two callers of ensure_authenticated() have returned and one
\* token exchange was made: one of them found the token valid.
C7_Witness ==
    /\ \E p, q \in Procs :
        /\ p # q
        /\ op[p] = "ensure" /\ pc[p] = "done"
        /\ op[q] = "ensure" /\ pc[q] = "done"
    /\ auth_count = 1

\* A drain's page request that was sent and got no page (in flight or failed).
Unanswered(p) ==
    IF pc[p] = "get_wait" \/ (pc[p] = "failed" /\ err[p] \in {"http", "transport"})
    THEN 1 ELSE 0

\* C8: a drain sends one page request per page, the first without anchor and
\* each following one with the nextAnchor of the page before, and returns the
\* concatenation of the pages' items in the order received, nothing dropped.
C8_DrainConcatenatesPages ==
    \A p \in Procs : op[p] = "drain" =>
        /\ all_items[p] = served[p]
        /\ calls[p] = served_n[p] + Unanswered(p)
        /\ pc[p] = "get_wait" =>
            req[p].anchor = IF served_n[p] = 0 THEN None
                            ELSE last_page[p][1].nextAnchor
        /\ pc[p] = "done" =>
            /\ result[p] = Some(served[p])
            /\ calls[p] = served_n[p]

\* C8 witness: the drain returned [a, b, c, d] after exactly 3 page calls.
C8_Witness ==
    \E p \in Procs :
        /\ op[p] = "drain" /\ pc[p] = "done"
        /\ result[p] = Some(<<"a", "b", "c", "d">>)
        /\ calls[p] = 3

\* The first page of caller p's drain was empty (or had no items field) and
\* had no nextAnchor.
EmptyFirstPage(p) ==
    /\ op[p] = "drain"
    /\ served_n[p] = 1
    /\ last_page[p][1].items \in {None, Some(<<>>)}
    /\ last_page[p][1].nextAnchor = None

\* C9: an empty first page without nextAnchor makes the drain return an empty
\* collection after one page call, without error.
C9_EmptyCollection ==
    \A p \in Procs : EmptyFirstPage(p) =>
        /\ pc[p] = "done"
        /\ result[p] = Some(<<>>)
        /\ calls[p] = 1
        /\ err[p] = ""

\* C9 witness: the first page had no items field and no nextAnchor.
C9_Witness ==
    \E p \in Procs :
        /\ EmptyFirstPage(p)
        /\ last_page[p][1].items = None
        /\ pc[p] = "done"

\* C10: whatever the number of pages, a drain whose calls succeed has returned
\* exactly when the last page had no (falsy: null, absent or empty)
\* nextAnchor; after a page with a cursor it is in the next page call, with
\* that cursor as anchor.
C10_DrainEndsOnlyWithoutCursor ==
    \A p \in Procs : (op[p] = "drain" /\ pc[p] # "failed") =>
        IF served_n[p] = 0
        THEN pc[p] # "done"
        ELSE LET next == last_page[p][1].nextAnchor IN
             /\ pc[p] = "done" <=> ~Truthy(next)
             /\ Truthy(next) =>
                /\ anchor[p] = next
                /\ pc[p] \in {"enter", "lock_wait", "lock_granted",
                              "auth_wait", "auth_expiry", "get_wait"}

\* C10 witness: every page so far came with a cursor; after MaxPages pages
\* the drain has not returned and is about to ask for the next page.
C10_Witness ==
    \E p \in Procs :
        /\ op[p] = "drain"
        /\ served_n[p] = MaxPages
        /\ Truthy(last_page[p][1].nextAnchor)
        /\ pc[p] = "enter"

\* C11: the client never retries.  The answer to a token exchange or to a
\* data GET ends that request: no second request is sent for it.  A failure
\* is raised at once: the operation is over, nothing of it stays in flight,
\* it sends nothing afterwards, and a drain returns no partial collection.
C11_NoRetry ==
    [][\A p \in Procs :
         /\ (pc[p] \in {"auth_wait", "auth_expiry"} /\ pc'[p] # pc[p]) =>
                auth_count' = auth_count
         /\ (pc[p] = "get_wait" /\ pc'[p] # "get_wait") =>
                /\ calls'[p] = calls[p]
                /\ pc'[p] \in {"done", "failed"} \/ served_n'[p] = served_n[p] + 1
         /\ err'[p] # "" =>
                /\ pc'[p] = "failed"
                /\ result'[p] = None
                /\ req'[p] = NoRequest
                /\ exch'[p] = 0
         /\ pc[p] = "failed" =>
                /\ pc'[p] = "failed"
                /\ calls'[p] = calls[p]
                /\ err'[p] = err[p]
      ]_vars

\* C11 witness: a drain got one page with items and a cursor, its second page
\* request failed: the drain raised after 2 page requests and returned nothing.
C11_Witness ==
    \E p \in Procs :
        /\ op[p] = "drain" /\ pc[p] = "failed" /\ err[p] = "http"
        /\ served_n[p] = 1 /\ all_items[p] # <<>>
        /\ calls[p] = 2
        /\ result[p] = None

\* C12 (as stated): a single-device lookup answered 404 upstream answers 404
\* locally and one answered 500 upstream answers 500 locally, whatever the
\* device id; the same for GET /updates/{device_id}.
C12_OutcomeByUpstreamStatus ==
    handler \in Lookups =>
        /\ upstream = 404 => response[1].status = 404
        /\ upstream = 500 => response[1].status = 500

\* The bucket the join must put device i of the collection in: no_info when
\* no update record carries its id, else by the pendingSoftwareUpdates of the
\* record with its id (of the last such record when several share the id).
JoinBucket(i) ==
    LET same == {j \in DOMAIN updates : updates[j].deviceId = devices[i].id}
    IN  IF same = {}
        THEN "no_info"
        ELSE LET j == CHOOSE k \in same : \A l \in same : l <= k
             IN  IF updates[j].pending \in {None, Some(<<>>)}
                 THEN "up_to_date"
                 ELSE "pending"

\* Number of devices of the collection whose bucket is b.
InBucket(b) == Cardinality({i \in DOMAIN devices : JoinBucket(i) = b})

\* C13: the join puts every device in exactly one of up_to_date, pending and
\* no_info, as JoinBucket says, and GET /statistics and
\* analyze_update_status report the number of devices of each bucket.
C13_JoinClassifies ==
    /\ (handler = "get_statistics" /\ response[1].status = 200) =>
        /\ \A k \in 1..3 :
              response[1].devices_by_status[k].count
                 = InBucket(response[1].devices_by_status[k].status)
        /\ {response[1].devices_by_status[k].status : k \in 1..3}
              = {"up_to_date", "pending", "no_info"}
        /\ response[1].devices_up_to_date = InBucket("up_to_date")
        /\ response[1].devices_with_pending_updates = InBucket("pending")
    /\ (handler = "analyze_update_status" /\ response[1].outcome = "returned") =>
        /\ \A b \in {"up_to_date", "pending", "no_info"} :
              response[1].devices_by_status[b] = InBucket(b)
        /\ response[1].devices_up_to_date = InBucket("up_to_date")
        /\ response[1].devices_with_pending_updates = InBucket("pending")

\* C13 witness: devices 1, 2, 3 with update records {1, nothing pending} and
\* {2, "x" pending}: GET /statistics counts one device in each bucket.
C13_Witness ==
    /\ handler = "get_statistics"
    /\ [i \in DOMAIN devices |-> devices[i].id] = <<Some("1"), Some("2"), Some("3")>>
    /\ updates = <<[deviceId |-> Some("1"), pending |-> Some(<<>>)],
                   [deviceId |-> Some("2"), pending |-> Some(<<"x">>)]>>
    /\ response[1].status = 200
    /\ \A k \in 1..3 : response[1].devices_by_status[k].count = 1

\* Every record of the drained update collection carries a deviceId.
UpdatesKeyed == \A j \in DOMAIN updates : updates[j].deviceId # None

\* C14: with an empty device collection (and update records that all carry
\* their deviceId) GET /statistics answers normally, total_devices = 0, each
\* of the three status buckets has count 0 and percentage 0, and no
\* percentage field of the answer is other than 0; print_update_report is
\* reached and prints no percentage other than 0.
C14_EmptyCollectionZeroPercent ==
    (devices = <<>> /\ UpdatesKeyed) =>
        /\ handler = "get_statistics" =>
            /\ response[1].status = 200
            /\ response[1].total_devices = 0
            /\ \A k \in 1..3 :
                /\ response[1].devices_by_status[k].count = 0
                /\ response[1].devices_by_status[k].percentage = 0
            /\ \A i \in DOMAIN response[1].devices_by_platform :
                response[1].devices_by_platform[i].percentage = 0
        /\ handler = "analyze_update_status" =>
            /\ response[1].outcome = "returned"
            /\ response[1].total_devices = 0
        /\ handler = "print_update_report" =>
            /\ response[1].outcome = "printed"
            /\ \A st \in DOMAIN response[1].percentages.by_status :
                response[1].percentages.by_status[st] = 0
            /\ \A i \in DOMAIN response[1].percentages.by_platform :
                response[1].percentages.by_platform[i] = 0

\* C14 witness: GET /statistics answered for no device at all while update
\* records exist: three buckets, each with count 0 and 0 %.
C14_Witness ==
    /\ handler = "get_statistics"
    /\ devices = <<>>
    /\ updates # <<>>
    /\ response[1].status = 200
    /\ \A k \in 1..3 : response[1].devices_by_status[k].percentage = 0

\* Caller p's data GET is sent in this step.
Sends(p) == pc[p] # "get_wait" /\ pc'[p] = "get_wait"

\* C15: every data GET carries Authorization: Bearer <t>, t the token stored
\* by the most recent authenticate() that succeeded when the header was
\* built (AsyncWithSecureClient); no data GET is sent before an
\* authentication has succeeded, and a call whose ensure_authenticated()
\* raised sends none.
C15_BearerOfLastAuthentication ==
    [][\A p \in Procs :
         /\ Sends(p) =>
                /\ last_ok' # None
                /\ req'[p].bearer[1] = "Bearer"
                /\ req'[p].bearer[2] # None
                /\ impl = "async" =>
                      req'[p].bearer = <<"Bearer", Some(last_ok'[1].token)>>
         /\ (err[p] = "" /\ err'[p] = "auth") =>
                /\ pc'[p] = "failed"
                /\ calls'[p] = calls[p]
                /\ req'[p] = NoRequest
      ]_vars

\* C15 witness: after a first authentication a refresh stored a second
\* token, and a data GET of the async client in flight carries that one.
C15_Witness ==
    /\ impl = "async"
    /\ auth_count = 2
    /\ last_ok # None /\ last_ok[1].token = 2
    /\ \E p \in Procs :
        pc[p] = "get_wait" /\ req[p].bearer = <<"Bearer", Some(2)>>

\* An answer of the token endpoint is processed by authenticate() in this
\* step: by a caller's refresh, or by the call lifespan() makes.
AnswerProcessed ==
    \/ \E p \in Procs : pc[p] = "auth_wait" /\ pc'[p] # "auth_wait"
    \/ phase = "startup_auth" /\ phase' = "serving"

\* C16: when the token exchange is answered with a non-2xx status or fails
\* in transport, authenticate() raises and access_token and token_expiry are
\* what they were before: nothing is stored and an invalid token stays
\* invalid.
C16_FailedExchangeStoresNothing ==
    [][(AnswerProcessed /\ last_answer' = "error") =>
          /\ access_token' = access_token
          /\ token_expiry' = token_expiry
          /\ IsTokenValidAt(access_token', token_expiry', now)
                = IsTokenValidAt(access_token, token_expiry, now)
          /\ last_auth' = None
          /\ \A p \in Procs :
                (pc[p] = "auth_wait" /\ pc'[p] # "auth_wait") =>
                    pc'[p] = "failed" /\ err'[p] = "auth"
      ]_vars

\* C16 witness: a token and its expiry are stored, a later exchange failed
\* and its caller got the error: the stored pair is still the old one.
C16_Witness ==
    /\ last_answer = "error"
    /\ last_ok # None
    /\ access_token = Some(last_ok[1].token)
    /\ token_expiry = Some(last_ok[1].expiry)
    /\ \E p \in Procs : pc[p] = "failed" /\ err[p] = "auth"

\* C17: in AsyncWithSecureClient a caller builds its Bearer header (and sends
\* its request) only on leaving the guard it had acquired in its own
\* ensure_authenticated(), and at that moment no token exchange started by
\* ensure_authenticated() is in flight.
C17_NoHeaderDuringRefresh ==
    [][\A p \in Procs :
         (impl = "async" /\ Sends(p)) =>
            /\ pc[p] \in {"enter", "lock_granted", "auth_wait"}
            /\ pc[p] # "enter" => lock_holder = p
            /\ pc[p] = "enter" => lock_holder = 0
            /\ lock_holder' # p
            /\ \A q \in Procs : q # p => pc[q] # "auth_wait"
            /\ \A q \in Procs : pc'[q] # "auth_wait"
      ]_vars

\* C17 witness: a caller refreshed the token while another one waited for
\* the guard; it has left the guard, its data GET carries the new token, and
\* the waiter now owns the guard without having resumed.
C17_Witness ==
    /\ impl = "async"
    /\ phase = "serving"
    /\ auth_count = 1
    /\ \E p, q \in Procs :
        /\ pc[p] = "get_wait" /\ req[p].bearer = <<"Bearer", Some(1)>>
        /\ pc[q] = "lock_granted" /\ lock_holder = q

\* C18 (as stated): a data request sent less than 60 seconds after the
\* is_token_valid() check of the same call returned true, or after the
\* refresh that check triggered, carries a token that has not reached its
\* expiry at send time.
C18_MarginCoversWindow ==
    (pc[1] = "get_wait" /\ window.kind # "none"
        /\ window.sent - window.from < 60)
        => window.sent < token_expiry[1]

\* C18 (amended): the same for a request sent less than 60 seconds after a
\* check that returned true; after a refresh, for a request sent less than
\* min(60, expires_in) seconds after it.
C18_MarginCoversCheckedWindow ==
    pc[1] = "get_wait" =>
        /\ (window.kind = "valid" /\ window.sent - window.from < 60)
              => window.sent < token_expiry[1]
        /\ (window.kind = "refreshed" /\ window.sent - window.from < 60
              /\ window.sent - window.from < last_auth[1].expires_in)
              => window.sent < token_expiry[1]

\* C18 witness: the check returned true 59 seconds before the margin, the
\* request left 59 seconds later, 2 seconds before the token's expiry.
C18_Witness ==
    /\ pc[1] = "get_wait"
    /\ window.kind = "valid"
    /\ window.sent = window.from + 59
    /\ token_expiry[1] = window.sent + 2

\* C19 (as stated): in every reachable state access_token and token_expiry
\* are both unset, or both the ones stored by one authenticate() that
\* succeeded; a new token is never paired with an older or missing expiry.
C19_TokenAndExpiryTogether ==
    \/ access_token = None /\ token_expiry = None
    \/ /\ last_ok # None
       /\ access_token = Some(last_ok[1].token)
       /\ token_expiry = Some(last_ok[1].expiry)

\* C20 (as stated): no token exchange is performed before the first
\* authenticated data call is made.
C20_NoExchangeBeforeFirstCall ==
    auth_count > 0 => \E p \in Procs : op[p] # "none"

\* The update records carrying the id of device d, by position.
RecordsOf(d) == {j \in DOMAIN updates : updates[j].deviceId = d.id}

\* The pending titles of the last update record of device d; none without a
\* record or without pendingSoftwareUpdates.
LastPending(d) ==
    IF RecordsOf(d) = {}
    THEN <<>>
    ELSE LET j == CHOOSE k \in RecordsOf(d) : \A l \in RecordsOf(d) : l <= k
         IN  IF updates[j].pending = None THEN <<>> ELSE updates[j].pending[1]

\* C21: when several update records share a deviceId, the last of them in
\* the drained collection decides: GET /statistics lists, for the devices
\* whose last record has pending updates and for no other, the pending
\* titles of that last record, and analyze_update_status gives every device
\* with a record the status and the pending titles of its last record.
C21_LastWriteWins ==
    /\ (handler = "get_statistics" /\ response[1].status = 200) =>
        LET pend == SelectSeq(devices, LAMBDA d : LastPending(d) # <<>>)
        IN  response[1].devices_with_pending_details
              = [i \in DOMAIN pend |->
                    [device_id |-> pend[i].id[1],
                     pending_updates |-> LastPending(pend[i])]]
    /\ (handler = "analyze_update_status"
            /\ response[1].outcome = "returned") =>
        LET with == SelectSeq(devices, LAMBDA d : RecordsOf(d) # {})
        IN  response[1].update_details
              = [i \in DOMAIN with |->
                    [device_id |-> with[i].id[1],
                     status |-> IF LastPending(with[i]) # <<>>
                                THEN "pending" ELSE "up_to_date",
                     pending_update_names |-> LastPending(with[i])]]

\* Two records for device "1", pending "x" then "y": the answer lists "y".
C21_Witness ==
    /\ handler = "get_statistics"
    /\ updates = <<[deviceId |-> Some("1"), pending |-> Some(<<"x">>)],
                   [deviceId |-> Some("1"), pending |-> Some(<<"y">>)]>>
    /\ Len(devices) = 1
    /\ devices[1].id = Some("1")
    /\ response[1].status = 200
    /\ response[1].devices_with_pending_details[1].pending_updates = <<"y">>

\* C23: with an empty device collection example_statistics() prints an
\* online percentage of 0 and no exception leaves it.
C23_ExampleHonoursGuard ==
    (handler = "example_statistics" /\ devices = <<>>) =>
        /\ response[1].outcome = "printed"
        /\ response[1].online_percentage = 0

\* Devices of the collection whose last update record puts them in bucket b,
\* by position.
Positions(b) == {i \in DOMAIN devices : JoinBucket(i) = b}

\* C27: in every answer of GET /statistics the three status counts add up to
\* total_devices, devices_online and devices_offline add up to
\* total_devices, and devices_with_pending_details has
\* devices_with_pending_updates entries, which name the pending devices in
\* the order of the device collection.
C27_BucketsPartition ==
    (handler = "get_statistics" /\ response[1].status = 200) =>
        LET a == response[1]
            named == {a.devices_with_pending_details[i].device_id :
                         i \in DOMAIN a.devices_with_pending_details}
            inOrder == SelectSeq(devices, LAMBDA d : d.id[1] \in named)
        IN  /\ a.devices_up_to_date = a.devices_by_status[1].count
            /\ a.devices_with_pending_updates = a.devices_by_status[2].count
            /\ a.devices_up_to_date + a.devices_with_pending_updates
                 + a.devices_by_status[3].count = a.total_devices
            /\ a.total_devices = Len(devices)
            /\ a.devices_online
                 = Cardinality({i \in DOMAIN devices :
                                   devices[i].online = Some(TRUE)})
            /\ a.devices_offline >= 0
            /\ a.devices_online + a.devices_offline = a.total_devices
            /\ Len(a.devices_with_pending_details)
                 = a.devices_with_pending_updates
            /\ Len(a.devices_with_pending_details)
                 = Cardinality(Positions("pending"))
            /\ [i \in DOMAIN a.devices_with_pending_details |->
                   a.devices_with_pending_details[i].device_id]
                 = [i \in DOMAIN inOrder |-> inOrder[i].id[1]]

\* Three devices, "2" then "1" pending and "3" without a record, one of them
\* online: the details name "2" before "1".
C27_Witness ==
    /\ handler = "get_statistics"
    /\ Len(devices) = 3
    /\ devices[1].id = Some("2") /\ devices[1].online = Some(TRUE)
    /\ devices[2].id = Some("1") /\ devices[2].online = None
    /\ devices[3].id = Some("3") /\ devices[3].online = None
    /\ updates = <<[deviceId |-> Some("1"), pending |-> Some(<<"x">>)],
                   [deviceId |-> Some("2"), pending |-> Some(<<"x">>)]>>
    /\ response[1].status = 200
    /\ response[1].devices_online = 1
    /\ response[1].devices_offline = 2
    /\ response[1].devices_with_pending_updates = 2
    /\ response[1].devices_by_status[3].count = 1
    /\ response[1].devices_with_pending_details[1].device_id = "2"
    /\ response[1].devices_with_pending_details[2].device_id = "1"

\* C28: devices_with_updates is the number of devices that have an update
\* record, and equals devices_up_to_date + devices_with_pending_updates, in
\* what analyze_update_status returns and in the answer of GET /statistics.
C28_WithUpdatesIsJoined ==
    LET joined == Cardinality({i \in DOMAIN devices : RecordsOf(devices[i]) # {}})
    IN  /\ (handler = "analyze_update_status"
                /\ response[1].outcome = "returned") =>
            /\ response[1].devices_with_updates = joined
            /\ response[1].devices_with_updates
                 = response[1].devices_up_to_date
                     + response[1].devices_with_pending_updates
        /\ (handler = "get_statistics" /\ response[1].status = 200) =>
            /\ response[1].devices_with_updates = joined
            /\ response[1].devices_with_updates
                 = response[1].devices_up_to_date
                     + response[1].devices_with_pending_updates

\* The probe succeeded: the token was valid or the refresh returned, and the
\* data GET answered 200.
ProbeSucceeded(pr) ==
    /\ \/ pr.valid
       \/ /\ pr.refresh[1].kind = "ok"
          /\ pr.refresh[1].has_token
          /\ pr.refresh[1].exp_kind \in {"absent", "int"}
    /\ pr.get = 200

\* C30: on the initialised client GET /health always answers 200 with a
\* HealthResponse, after at most one data request; the answer is "healthy"
\* with withsecure_api_connected true exactly when the probe, its token
\* refresh included, succeeded, and "degraded" with false otherwise.
C30_HealthNeverFails ==
    handler = "health_check" =>
        LET a == response[1].answer
            ok == ProbeSucceeded(response[1].probe)
        IN  /\ a.status = 200
            /\ response[1].requests <= 1
            /\ ok => response[1].requests = 1
            /\ a.health = IF ok THEN "healthy" ELSE "degraded"
            /\ a.withsecure_api_connected = ok

\* The refresh of the probe was refused: the answer is 200 "degraded".
C30_Witness ==
    /\ handler = "health_check"
    /\ ~response[1].probe.valid
    /\ response[1].probe.refresh[1].kind = "http_error"
    /\ response[1].requests = 0
    /\ response[1].answer.status = 200
    /\ response[1].answer.health = "degraded"
    /\ ~response[1].answer.withsecure_api_connected

\* C22: the constructor's fields never change, and a drain keeps nothing
\* from one call to the next: a drain that is called again starts from an
\* empty collection and no anchor and leaves the token alone, every drain
\* that returned has sent its own page requests (at least one), and what it
\* returned is the concatenation of the pages served to that call.
C22_OnlyTokenMutated ==
    /\ [](config = ConstructedConfig)
    /\ [](\A p \in Procs : op[p] = "drain" =>
            /\ all_items[p] = served[p]
            /\ pc[p] = "done" =>
                /\ result[p] = Some(served[p])
                /\ calls[p] = served_n[p]
                /\ calls[p] >= 1)
    /\ [][\A p \in Procs :
            (pc[p] = "done" /\ pc'[p] = "enter") =>
                /\ all_items'[p] = <<>>
                /\ anchor'[p] = None
                /\ access_token' = access_token
                /\ token_expiry' = token_expiry
         ]_vars

\* C22 witness: a second drain of the same client returned what its own two
\* page requests were answered.
C22_Witness ==
    /\ drained_before
    /\ op[1] = "drain" /\ pc[1] = "done"
    /\ calls[1] = 2
    /\ result[1] = Some(<<"a", "b", "c">>)

\* C26: a drain checks the token before every page request.  A check that
\* finds it invalid starts one token exchange and no page request; when that
\* exchange returns, the page request is sent without a further exchange and
\* carries the token of that exchange; every page request carries, as
\* anchor, the nextAnchor of the page before (none for the first), and the
\* items collected so far are those of the pages served, whatever refresh
\* happened in between.
C26_RefreshBetweenPages ==
    [][\A p \in Procs : op[p] = "drain" =>
         /\ Checks(p) =>
              /\ pc'[p] = "auth_wait" <=> ~IsTokenValid
              /\ ~IsTokenValid =>
                    /\ auth_count' = Counted(auth_count + 1)
                    /\ calls'[p] = calls[p]
                    /\ anchor'[p] = anchor[p]
                    /\ all_items'[p] = all_items[p]
              /\ IsTokenValid => Sends(p)
         /\ (pc[p] \in {"auth_wait", "auth_expiry"} /\ pc'[p] # pc[p]) =>
              /\ auth_count' = auth_count
              /\ anchor'[p] = anchor[p]
              /\ all_items'[p] = all_items[p]
              /\ Sends(p) => req'[p].bearer = <<"Bearer", Some(exch[p])>>
         /\ Sends(p) =>
              /\ calls'[p] = calls[p] + 1
              /\ req'[p].anchor = IF served_n[p] = 0 THEN None
                                  ELSE last_page[p][1].nextAnchor
              /\ all_items'[p] = served[p]
      ]_vars

\* C26 witness: after the first page (items a, b, cursor c1) was served with
\* token 1, the token is no longer valid at the check for the second page
\* and the drain awaits token exchange 2, anchor and items kept.
C26_Witness ==
    \E p \in Procs :
        /\ op[p] = "drain" /\ pc[p] = "auth_wait"
        /\ served_n[p] = 1
        /\ access_token = Some(1) /\ token_expiry = Some(Margin + 1)
        /\ now = 1
        /\ exch[p] = 2
        /\ anchor[p] = Some("c1")
        /\ all_items[p] = <<"a", "b">>

\* C29: the start-up authentication ends with the service serving whatever
\* the token endpoint answered; when no authentication has returned so far,
\* the client holds no valid token, and the first caller that reaches the
\* check of ensure_authenticated() starts a token exchange.
C29_StartupFailureNotRemembered ==
    [][/\ (phase = "startup_auth" /\ phase' # phase) =>
            /\ phase' = "serving"
            /\ last_ok' = None => ~IsTokenValidAt(access_token', token_expiry', now')
       /\ \A p \in Procs :
            (Checks(p) /\ last_ok = None) =>
                /\ pc'[p] = "auth_wait"
                /\ auth_count' = Counted(auth_count + 1)
      ]_vars

\* C29 witness: the start-up exchange (number 1) failed, the service serves,
\* and the only caller so far awaits exchange 2.
C29_Witness ==
    /\ phase = "serving"
    /\ last_ok = None
    /\ last_answer = "error"
    /\ auth_count = 2
    /\ \E p \in Procs :
        /\ pc[p] = "auth_wait" /\ exch[p] = 2
        /\ \A q \in Procs \ {p} : op[q] = "none"

\* Caller p is inside ensure_authenticated().
InEnsure(p) == pc[p] \in {"enter", "lock_wait", "lock_granted", "auth_wait"}

\* C24: with fair scheduling and every token exchange answered, every call
\* of ensure_authenticated() of the async class returns or raises; a caller
\* that has returned or raised does not hold the guard, and once no caller
\* is inside the guard is free and nobody waits for it.
C24_EnsureTerminates ==
    /\ \A p \in Procs : InEnsure(p) ~> pc[p] \in {"done", "failed"}
    /\ [](\A p \in Procs :
            pc[p] \in {"done", "failed"} =>
                /\ lock_holder # p
                /\ \A i \in DOMAIN lock_waiters : lock_waiters[i] # p)
    /\ []((\A p \in Procs : ~InEnsure(p)) =>
            lock_holder = 0 /\ lock_waiters = <<>>)

\* C24 witness: the holder's authenticate() raised while another caller
\* waited; the waiter was given the guard and has returned.
C24_Witness ==
    \E p, q \in Procs :
        /\ pc[p] = "failed" /\ err[p] = "auth"
        /\ pc[q] = "done"
        /\ access_token = Some(2)
        /\ lock_holder = 0

\* C25: an exception of authenticate() is raised in the caller that ran it
\* and in no other: the error appears in a caller that was awaiting its own
\* exchange, every other caller is left as it was or is woken, and a woken
\* waiter that finds no valid token starts its own exchange.  As long as no
\* exchange has succeeded, the exchanges started are as many as the callers
\* that passed the guard, at most one of them in flight, no caller has
\* returned, and every caller that is over got the authentication error; N
\* callers that are all over have made N exchanges.
C25_EachCallerItsOwnFailure ==
    /\ [](last_ok = None =>
            LET tried == {p \in Procs : pc[p] \in {"auth_wait", "failed"}}
            IN  /\ auth_count = Cardinality(tried)
                /\ Cardinality({p \in Procs : pc[p] = "auth_wait"}) <= 1
                /\ \A p \in Procs :
                    /\ pc[p] # "done"
                    /\ pc[p] = "failed" <=> err[p] = "auth"
                /\ (\A p \in Procs : pc[p] = "failed") => auth_count = NProcs)
    /\ [][\A p \in Procs :
            /\ err'[p] # err[p] =>
                /\ pc[p] = "auth_wait" /\ pc'[p] = "failed"
                /\ \A q \in Procs \ {p} :
                    /\ err'[q] = err[q]
                    /\ pc'[q] = pc[q]
                         \/ (pc[q] = "lock_wait" /\ pc'[q] = "lock_granted")
            /\ (pc[p] = "lock_granted" /\ pc'[p] # pc[p] /\ ~IsTokenValid) =>
                /\ pc'[p] = "auth_wait"
                /\ exch'[p] = auth_count + 1
         ]_vars

\* C25 witness: every caller called ensure_authenticated(), every exchange
\* failed, every caller got the error, after NProcs exchanges.
C25_Witness ==
    /\ \A p \in Procs : pc[p] = "failed" /\ err[p] = "auth"
    /\ last_ok = None
    /\ auth_count = NProcs
    /\ lock_holder = 0

====
